---- MODULE Spec2Model ----
(***************************************************************************)
(* Drive-thru simulation of simulation.py: one Restaurant with an order, a *)
(* pay and a pickup station (simpy.Resource), the arrival generator        *)
(* (Restaurant.generate_customers), the customer process (Customer.start)  *)
(* and the statistics (Restaurant.calculateMean*Time, printStats).         *)
(*                                                                         *)
(* The simpy kernel the program runs on is modelled as simpy implements    *)
(* it: the event heap is ordered by (time, priority, insertion); a process *)
(* start (Initialize) is scheduled URGENT, everything else NORMAL; a       *)
(* Timeout is scheduled when it is created; Resource.request() appends to  *)
(* the put queue and tries the HEAD of that queue only; Resource.release() *)
(* removes the user at once and admits the next head only when the Release *)
(* event is popped; a yield on an event that was already processed         *)
(* continues at once.                                                      *)
(***************************************************************************)
EXTENDS Integers, Sequences, FiniteSets, TLC

\* ------------------------------------------------------------------ bounds
\* Customers spawned by generate_customers in the small configurations.
NumCustomers == 2
\* In the small configurations every random sample (inter-arrival gap, stage
\* duration) is either 0 or MaxDelay.
MaxDelay == 1
\* A station is given its default capacity or MaxCapacity.
MaxCapacity == 2
\* Customers spawned in the rush configurations: enough to fill the order line.
RushCustomers == 11
\* The long stage duration of the rush configurations.
Slow == 12
\* Customers of the small configurations checked for termination.
FairCustomers == 1

\* ------------------------------------------------------- program constants
NUM_OF_ORDER_STATIONS == 1
NUM_OF_PAY_STATIONS == 1
NUM_OF_PICKUP_STATIONS == 1
\* "Max of 7 customers in line" of the entry check.
OrderLineLimit == 7
\* Backpressure thresholds of the pay and the pickup wait lines.
PayLineLimit == 5
PickupLineLimit == 2
\* The value of a timestamp or duration that was never set (-1.0).
Unset == -1
URGENT == 0
NORMAL == 1

Stations == {"order", "pay", "pickup"}
\* The generator process; customers are 1, 2, ...
Generator == 0

VARIABLES
    cfg,                \* configuration: n, cap, gaps, durs
    now,                \* env.now
    heap,               \* env._queue, in pop order
    users,              \* Resource.users per station
    queue,              \* Resource.queue (put_queue) per station
    callbacks,          \* processes to resume per pending Request event
    customerList,       \* Restaurant.customerList: the Customer fields
    proc,               \* position of each customer's process
    totalCustomers,
    numCustomersLeft,
    numCustomersStayed,
    gen,                \* generate_customers: loop index and position
    main,               \* the driver: "running", "reported", "fault"
    report,             \* what printStats computed
    hist                \* history (not program state): per station the order
                        \* of requests, admissions and releases; per customer
                        \* the times of its start, requests, admissions and
                        \* releases, the start of its food prep, and the
                        \* order line's length when its process started

vars == <<cfg, now, heap, users, queue, callbacks, customerList, proc,
          totalCustomers, numCustomersLeft, numCustomersStayed, gen, main,
          report, hist>>

\* The whole state as one record, so that a handler is a function on it.
State ==
    [now |-> now, heap |-> heap, users |-> users, queue |-> queue,
     callbacks |-> callbacks, customerList |-> customerList, proc |-> proc,
     totalCustomers |-> totalCustomers, numCustomersLeft |-> numCustomersLeft,
     numCustomersStayed |-> numCustomersStayed, gen |-> gen, hist |-> hist]

Commit(S) ==
    /\ now' = S.now
    /\ heap' = S.heap
    /\ users' = S.users
    /\ queue' = S.queue
    /\ callbacks' = S.callbacks
    /\ customerList' = S.customerList
    /\ proc' = S.proc
    /\ totalCustomers' = S.totalCustomers
    /\ numCustomersLeft' = S.numCustomersLeft
    /\ numCustomersStayed' = S.numCustomersStayed
    /\ gen' = S.gen
    /\ hist' = S.hist
    /\ UNCHANGED <<cfg, main, report>>

\* A handler reads the state it is given many times: it is written as
\* Once({body : S \in {st}}), which evaluates the state st it is given once
\* and binds S to that value in the body.
Once(set) == CHOOSE y \in set : TRUE

\* ------------------------------------------------------------- simpy kernel
Event(kind, c, s) == [kind |-> kind, c |-> c, s |-> s]

\* An entry stays ahead of a new one when its (time, priority) is not larger:
\* among equal keys the heap pops in order of insertion (the event id).
StaysAhead(old, new) ==
    \/ old.t < new.t
    \/ old.t = new.t /\ old.prio <= new.prio

\* Environment.schedule(event, priority, delay)
Schedule(st, ev, prio, delay) ==
    Once({
        LET e == [t |-> S.now + delay, prio |-> prio, ev |-> ev]
            k == Cardinality({i \in DOMAIN S.heap : StaysAhead(S.heap[i], e)})
        IN  [S EXCEPT !.heap = SubSeq(S.heap, 1, k) \o <<e>>
                               \o SubSeq(S.heap, k + 1, Len(S.heap))]
        : S \in {st}})

\* Faulty variant of PutCandidate: the newest request is tried first.
PutCandidateNewest(q) == q[Len(q)]

\* The request Resource._trigger_put may admit: the head of the put queue.
PutCandidate(q) == Head(q)

\* Faulty variant of SlotFree: one user more than the capacity is let in.
SlotFreeOffByOne(S, s) == Len(S.users[s]) <= cfg.cap[s]

\* Resource._do_put: a slot is free.
SlotFree(S, s) == Len(S.users[s]) < cfg.cap[s]

\* Resource._trigger_put / _do_put: admit the candidate if a slot is free;
\* its Request event succeeds, that is, it is scheduled for now.
TriggerPut(st, s) ==
    Once({
        IF S.queue[s] # <<>> /\ SlotFree(S, s)
        THEN LET c == PutCandidate(S.queue[s])
                 S1 == [S EXCEPT
                          !.users[s] = Append(@, c),
                          !.queue[s] = SelectSeq(@, LAMBDA x : x # c),
                          !.hist.admOrder[s] = Append(@, c),
                          !.hist.admTime[c][s] = S.now]
             IN  Schedule(S1, Event("Request", c, s), NORMAL, 0)
        ELSE S
        : S \in {st}})

\* resource.request() followed by "yield": the request joins the put queue,
\* the queue's head is tried, and the caller waits for its Request event.
Request(st, c, s) ==
    Once({
        LET S1 == [S EXCEPT !.queue[s] = Append(@, c),
                            !.hist.reqOrder[s] = Append(@, c),
                            !.hist.reqTime[c][s] = S.now]
            S2 == TriggerPut(S1, s)
        IN  [S2 EXCEPT !.callbacks[s][c] = Append(@, c)]
        : S \in {st}})

\* Resource._do_get: the users left after a release.
UsersAfterRelease(u, c) == SelectSeq(u, LAMBDA x : x # c)

\* Faulty variant of Release: the user leaves but no Release event is scheduled, so
\* nobody is admitted in its place.
ReleaseWithoutEvent(st, c, s) ==
    Once({
        [S EXCEPT !.users[s] = SelectSeq(@, LAMBDA x : x # c),
                  !.hist.relOrder[s] = Append(@, c),
                  !.hist.relTime[c][s] = S.now]
        : S \in {st}})

\* Faulty variant of Release: the Release event succeeds one time unit late.
ReleaseLate(st, c, s) ==
    Once({
        LET S1 == [S EXCEPT !.users[s] = UsersAfterRelease(@, c),
                            !.hist.relOrder[s] = Append(@, c),
                            !.hist.relTime[c][s] = S.now]
        IN  Schedule(S1, Event("Release", c, s), NORMAL, 1)
        : S \in {st}})

\* resource.release(request): the user leaves at once and the Release event
\* succeeds; the next request is admitted when that event is popped.
Release(st, c, s) ==
    Once({
        LET S1 == [S EXCEPT !.users[s] = UsersAfterRelease(@, c),
                            !.hist.relOrder[s] = Append(@, c),
                            !.hist.relTime[c][s] = S.now]
        IN  Schedule(S1, Event("Release", c, s), NORMAL, 0)
        : S \in {st}})

\* The process's generator is exhausted: the Process event is scheduled.
EndProcess(st, c) ==
    Once({
        Schedule(S, Event("Process", c, "none"), NORMAL, 0)
        : S \in {st}})

\* An exception leaves the process's generator (Timeout raises ValueError for a
\* negative delay): the Process event is scheduled as failed.
Fail(st, c) ==
    Once({
        Schedule(IF c = Generator
                 THEN [S EXCEPT !.gen.pc = "failed"]
                 ELSE [S EXCEPT !.proc[c].pc = "failed"],
                 Event("Process", c, "failed"), NORMAL, 0)
        : S \in {st}})

\* ------------------------------------------------------------ Customer.start
\* Customer.__init__: every timestamp and duration starts unset.
NewCustomer ==
    [enterTime |-> Unset, exitTime |-> Unset, orderDuration |-> Unset,
     prepDuration |-> Unset, payDuration |-> Unset, pickupDuration |-> Unset]

\* Faulty variant of EnoughSpace: the line is closed one customer earlier.
EnoughSpaceStrict(S) == Len(S.queue["order"]) < OrderLineLimit + cfg.cap["order"]

\* Faulty variant of EnoughSpace: one customer more is let into the line.
EnoughSpaceLoose(S) ==
    Len(S.queue["order"]) <= OrderLineLimit + cfg.cap["order"] + 1

\* Faulty variant of EnoughSpace: the comparison is inverted.
EnoughSpaceInverted(S) ==
    Len(S.queue["order"]) > OrderLineLimit + cfg.cap["order"]

\* The entry check: enter the line if there is enough space.
EnoughSpace(S) == Len(S.queue["order"]) <= OrderLineLimit + cfg.cap["order"]

\* Faulty variant of PayStationFull: the check lets one customer more through.
PayStationFullLate(S) == Len(S.queue["pay"]) > PayLineLimit

\* The backpressure checks before leaving the order and the pay station.
PayStationFull(S) == Len(S.queue["pay"]) >= PayLineLimit
PickupStationFull(S) == Len(S.queue["pickup"]) >= PickupLineLimit

\* "yield station.queue[0]": wait for the Request event at the head of the line.
WaitForHead(st, c, s, pc) ==
    Once({
        [S EXCEPT !.callbacks[s][Head(S.queue[s])] = Append(@, c),
                  !.proc[c].pc = pc]
        : S \in {st}})

\* Faulty variant of Start: a customer that leaves is counted as staying too.
StartCountsLeaverAsStayed(st, c) ==
    Once({
        LET S0 == [S EXCEPT !.hist.startQueue[c] = Len(S.queue["order"]),
                            !.hist.startTime[c] = S.now]
        IN  IF EnoughSpace(S)
            THEN LET S1 == [S0 EXCEPT !.customerList[c].enterTime = S.now,
                                      !.numCustomersStayed = @ + 1,
                                      !.proc[c].pc = "waitOrder"]
                 IN  Request(S1, c, "order")
            ELSE EndProcess([S0 EXCEPT !.numCustomersLeft = @ + 1,
                                       !.numCustomersStayed = @ + 1,
                                       !.proc[c].pc = "balked"], c)
        : S \in {st}})

\* The process starts: enter the line and request the order station, or leave.
Start(st, c) ==
    Once({
        LET S0 == [S EXCEPT !.hist.startQueue[c] = Len(S.queue["order"]),
                            !.hist.startTime[c] = S.now]
        IN  IF EnoughSpace(S)
            THEN LET S1 == [S0 EXCEPT !.customerList[c].enterTime = S.now,
                                      !.numCustomersStayed = @ + 1,
                                      !.proc[c].pc = "waitOrder"]
                 IN  Request(S1, c, "order")
            ELSE EndProcess([S0 EXCEPT !.numCustomersLeft = @ + 1,
                                       !.proc[c].pc = "balked"], c)
        : S \in {st}})

\* Admitted to the order station: sample and start the order delay.
AfterOrderAdmitted(st, c, d) ==
    Once({
        IF d < 0 THEN Fail(S, c)
        ELSE Schedule([S EXCEPT !.customerList[c].orderDuration = d,
                                !.proc[c].pc = "ordering"],
                      Event("Timeout", c, "order"), NORMAL, d)
        : S \in {st}})

\* Faulty variant of LeaveOrder: the pay station is requested while the order
\* station is still held.
LeaveOrderKeepsSlot(st, c) ==
    Once({
        Request([S EXCEPT !.proc[c].pc = "waitPay"], c, "pay")
        : S \in {st}})

\* Finished ordering: leave the order station, join the pay line.
LeaveOrder(st, c) ==
    Once({
        Request([Release(S, c, "order") EXCEPT !.proc[c].pc = "waitPay"], c, "pay")
        : S \in {st}})

\* The order delay is over: start food prep, then move on if there is space.
AfterOrderDelay(st, c, d) ==
    Once({
        LET S1 == Schedule([S EXCEPT !.customerList[c].prepDuration = d,
                                     !.hist.prepStart[c] = S.now],
                           Event("Timeout", c, "prep"), NORMAL, d)
        IN  IF d < 0 THEN Fail(S, c)
            ELSE IF PayStationFull(S1)
            THEN WaitForHead(S1, c, "pay", "bpPay")
            ELSE LeaveOrder(S1, c)
        : S \in {st}})

\* Faulty variant of AfterPayAdmitted: the pay delay is stored in orderDuration.
AfterPayAdmittedStoresOrder(st, c, d) ==
    Once({
        Schedule([S EXCEPT !.customerList[c].orderDuration = d,
                           !.proc[c].pc = "paying"],
                 Event("Timeout", c, "pay"), NORMAL, d)
        : S \in {st}})

\* Admitted to the pay station: sample and start the pay delay.
AfterPayAdmitted(st, c, d) ==
    Once({
        IF d < 0 THEN Fail(S, c)
        ELSE Schedule([S EXCEPT !.customerList[c].payDuration = d,
                                !.proc[c].pc = "paying"],
                      Event("Timeout", c, "pay"), NORMAL, d)
        : S \in {st}})

\* Finished paying: leave the pay station, join the pickup line.
LeavePay(st, c) ==
    Once({
        Request([Release(S, c, "pay") EXCEPT !.proc[c].pc = "waitPickup"],
                c, "pickup")
        : S \in {st}})

\* The pay delay is over: move on if there is space.
AfterPayDelay(st, c) ==
    Once({
        IF PickupStationFull(S)
        THEN WaitForHead(S, c, "pickup", "bpPickup")
        ELSE LeavePay(S, c)
        : S \in {st}})

\* Faulty variant of AwaitPrep: the customer does not wait for the food.
AwaitPrepSkipped(st, c) ==
    Once({
        [S EXCEPT !.proc[c].pc = "waitPickupDelay"]
        : S \in {st}})

\* "yield prepDelay" right after the pickup delay was created: an event that
\* was already processed does not suspend the process.
AwaitPrep(st, c) ==
    Once({
        IF S.proc[c].prepDone
        THEN [S EXCEPT !.proc[c].pc = "waitPickupDelay"]
        ELSE [S EXCEPT !.proc[c].pc = "waitPrep"]
        : S \in {st}})

\* Admitted to the pickup station: sample and start the pickup delay, then
\* wait for the food and for the pickup delay.
AfterPickupAdmitted(st, c, d) ==
    Once({
        IF d < 0 THEN Fail(S, c)
        ELSE AwaitPrep(Schedule([S EXCEPT !.customerList[c].pickupDuration = d],
                                Event("Timeout", c, "pickup"), NORMAL, d), c)
        : S \in {st}})

\* Faulty variant of Finish: the pickup duration is stored as the exit time.
FinishStoresDuration(st, c) ==
    Once({
        EndProcess([Release(S, c, "pickup") EXCEPT
                        !.customerList[c].exitTime =
                            S.customerList[c].pickupDuration,
                        !.proc[c].pc = "done"], c)
        : S \in {st}})

\* Finished picking up: leave the pickup station and the line.
Finish(st, c) ==
    Once({
        EndProcess([Release(S, c, "pickup") EXCEPT
                        !.customerList[c].exitTime = S.now,
                        !.proc[c].pc = "done"], c)
        : S \in {st}})

\* The food is ready: "yield pickupDelay".
AfterPrepDelay(st, c) ==
    Once({
        IF S.proc[c].pickupDone
        THEN Finish(S, c)
        ELSE [S EXCEPT !.proc[c].pc = "waitPickupDelay"]
        : S \in {st}})

\* Process._resume of customer c at its current position; d is the sample
\* the code draws next, if it draws one.
Resume(st, c, d) ==
    Once({
        CASE S.proc[c].pc = "waitOrder"  -> AfterOrderAdmitted(S, c, d)
          [] S.proc[c].pc = "ordering"   -> AfterOrderDelay(S, c, d)
          [] S.proc[c].pc = "bpPay"      -> LeaveOrder(S, c)
          [] S.proc[c].pc = "waitPay"    -> AfterPayAdmitted(S, c, d)
          [] S.proc[c].pc = "paying"     -> AfterPayDelay(S, c)
          [] S.proc[c].pc = "bpPickup"   -> LeavePay(S, c)
          [] S.proc[c].pc = "waitPickup" -> AfterPickupAdmitted(S, c, d)
          [] S.proc[c].pc = "waitPrep"   -> AfterPrepDelay(S, c)
          [] S.proc[c].pc = "waitPickupDelay" -> Finish(S, c)
        : S \in {st}})

\* The callbacks of a popped event, in the order they were appended.
RECURSIVE RunCallbacks(_, _, _)
RunCallbacks(st, cbs, d) ==
    Once({
        IF cbs = <<>> THEN S
        ELSE RunCallbacks(Resume(S, Head(cbs), d), Tail(cbs), d)
        : S \in {st}})

\* --------------------------------------------- Restaurant.generate_customers
\* One turn of the loop: create the customer, start its process, sleep; or the
\* loop is over and the generator ends.
GenerateNext(st, gap) ==
    Once({
        IF S.gen.c < cfg.n
        THEN LET c == Len(S.customerList) + 1
                 S1 == [S EXCEPT
                          !.customerList = Append(@, NewCustomer),
                          !.proc = Append(@, [pc |-> "new", prepDone |-> FALSE,
                                              pickupDone |-> FALSE]),
                          !.hist.reqTime = Append(@, [s \in Stations |-> Unset]),
                          !.hist.admTime = Append(@, [s \in Stations |-> Unset]),
                          !.hist.relTime = Append(@, [s \in Stations |-> Unset]),
                          !.hist.prepStart = Append(@, Unset),
                          !.hist.startQueue = Append(@, Unset),
                          !.hist.startTime = Append(@, Unset),
                          !.totalCustomers = @ + 1,
                          !.gen = [c |-> @.c + 1, pc |-> "sleeping"]]
                 S2 == Schedule(S1, Event("Initialize", c, "none"), URGENT, 0)
             IN  IF gap < 0 THEN Fail(S2, Generator)
                 ELSE Schedule(S2, Event("Timeout", Generator, "arrival"),
                               NORMAL, gap)
        ELSE EndProcess([S EXCEPT !.gen.pc = "done"], Generator)
        : S \in {st}})

\* ------------------------------------------------- Restaurant.calculateMean*
\* Faulty variant of SumSet: the unset fields are added up as well.
RECURSIVE SumAll(_, _)
SumAll(list, f) ==
    IF list = <<>> THEN 0 ELSE Head(list)[f] + SumAll(Tail(list), f)

\* The loop over customerList: the sum of field f over the customers whose
\* field is set.
RECURSIVE SumSet(_, _)
SumSet(list, f) ==
    IF list = <<>> THEN 0
    ELSE (IF Head(list)[f] # Unset THEN Head(list)[f] ELSE 0)
         + SumSet(Tail(list), f)

\* The loop of calculateMeanDriveThruTime: exit - enter where both are set.
RECURSIVE SumTimeSpent(_)
SumTimeSpent(list) ==
    IF list = <<>> THEN 0
    ELSE (IF Head(list).enterTime # Unset /\ Head(list).exitTime # Unset
          THEN Head(list).exitTime - Head(list).enterTime ELSE 0)
         + SumTimeSpent(Tail(list))

\* float(meanTime / self.numCustomersStayed): the quotient as a fraction, or
\* Python's ZeroDivisionError.
Divide(total, count) ==
    IF count = 0
    THEN [fault |-> "ZeroDivisionError", num |-> total, den |-> count]
    ELSE [fault |-> "none", num |-> total, den |-> count]

calculateMeanDriveThruTime ==
    Divide(SumTimeSpent(customerList), numCustomersStayed)
calculateMeanOrderTime ==
    Divide(SumSet(customerList, "orderDuration"), numCustomersStayed)
calculateMeanPrepTime ==
    Divide(SumSet(customerList, "prepDuration"), numCustomersStayed)
calculateMeanPayTime ==
    Divide(SumSet(customerList, "payDuration"), numCustomersStayed)
calculateMeanPickupTime ==
    Divide(SumSet(customerList, "pickupDuration"), numCustomersStayed)

\* printStats evaluates the five means in this order; an exception raised by
\* one ends printStats (and the program) there.
RECURSIVE UpToFault(_)
UpToFault(means) ==
    IF means = <<>> THEN <<>>
    ELSE IF Head(means).fault # "none" THEN <<Head(means)>>
    ELSE <<Head(means)>> \o UpToFault(Tail(means))

printStats ==
    UpToFault(<<calculateMeanDriveThruTime, calculateMeanOrderTime,
                calculateMeanPrepTime, calculateMeanPayTime,
                calculateMeanPickupTime>>)

\* ------------------------------------------------------------ configurations
\* n: the argument of generate_customers; cap: the capacity of each station;
\* gaps: the values random.expovariate may return; durs: the values
\* random.weibullvariate may return for each stage.
Stages == {"order", "prep", "pay", "pickup"}
Config(n, cap, gaps, durs) == [n |-> n, cap |-> cap, gaps |-> gaps, durs |-> durs]

\* The capacities of simulation.py as it stands.
DefaultCap ==
    [s \in Stations |->
        CASE s = "order" -> NUM_OF_ORDER_STATIONS
          [] s = "pay" -> NUM_OF_PAY_STATIONS
          [] s = "pickup" -> NUM_OF_PICKUP_STATIONS]

\* The default capacities, and each station in turn widened to MaxCapacity.
Capacities ==
    {DefaultCap} \cup {[DefaultCap EXCEPT ![s] = MaxCapacity] : s \in Stations}

\* The small configurations: up to NumCustomers customers, each gap and each
\* duration sampled independently from Samples.
Samples == {0, MaxDelay}
SmallConfigs ==
    {Config(n, cap, Samples, [g \in Stages |-> Samples]) :
        n \in 0..NumCustomers, cap \in Capacities}

\* The rush configurations: RushCustomers customers arrive at the same
\* instant; ordering takes one time unit, the food is ready at once or after
\* Slow, and paying and picking up each take either one time unit or Slow.
RushConfigs ==
    {Config(RushCustomers, cap, {0},
            [g \in Stages |-> CASE g = "order" -> {1}
                                [] g = "prep" -> {prep}
                                [] g = "pay" -> {pay}
                                [] g = "pickup" -> {pickup}]) :
        cap \in Capacities, prep \in {0, Slow}, pay \in {1, Slow},
        pickup \in {1, Slow}}

Configs == SmallConfigs \cup RushConfigs

\* The state when env.run() is called: the environment, the three resources
\* and the restaurant are constructed and the generator process is started.
InitWith(configs) ==
    /\ cfg \in configs
    /\ now = 0
    /\ heap = <<[t |-> 0, prio |-> URGENT,
                 ev |-> Event("Initialize", Generator, "none")]>>
    /\ users = [s \in Stations |-> <<>>]
    /\ queue = [s \in Stations |-> <<>>]
    /\ callbacks = [s \in Stations |-> [c \in 1..cfg.n |-> <<>>]]
    /\ customerList = <<>>
    /\ proc = <<>>
    /\ totalCustomers = 0
    /\ numCustomersLeft = 0
    /\ numCustomersStayed = 0
    /\ gen = [c |-> 0, pc |-> "new"]
    /\ main = "running"
    /\ report = <<>>
    /\ hist = [reqOrder |-> [s \in Stations |-> <<>>],
               admOrder |-> [s \in Stations |-> <<>>],
               relOrder |-> [s \in Stations |-> <<>>],
               reqTime |-> <<>>, admTime |-> <<>>, relTime |-> <<>>,
               prepStart |-> <<>>, startQueue |-> <<>>, startTime |-> <<>>]

Init == InitWith(Configs)

\* ------------------------------------------------ Environment.step, env.run
\* The event env.step() pops next, and the state after the pop.
Next1 == Head(heap).ev
Popped == [State EXCEPT !.now = Head(heap).t, !.heap = Tail(heap)]
Running == main = "running" /\ heap # <<>>

\* The generator is resumed: by its Initialize event or by its Timeout.
GeneratorStep ==
    /\ Running
    /\ Next1.c = Generator
    /\ Next1.kind \in {"Initialize", "Timeout"}
    /\ \E gap \in cfg.gaps : Commit(GenerateNext(Popped, gap))

\* A customer's process starts.
CustomerStart ==
    /\ Running
    /\ Next1.c # Generator
    /\ Next1.kind = "Initialize"
    /\ Commit(Start(Popped, Next1.c))

\* A Request event is popped: its owner and the customers that waited for it
\* as the head of the line are resumed, in the order they began to wait.
RequestGranted ==
    /\ Running
    /\ Next1.kind = "Request"
    /\ \E d \in cfg.durs[Next1.s] :
         Commit(RunCallbacks(
                  [Popped EXCEPT !.callbacks[Next1.s][Next1.c] = <<>>],
                  callbacks[Next1.s][Next1.c], d))

\* A Release event is popped: Resource._trigger_put admits the next request.
ReleaseProcessed ==
    /\ Running
    /\ Next1.kind = "Release"
    /\ Commit(TriggerPut(Popped, Next1.s))

\* The order delay of a customer is over.
OrderDelayOver ==
    /\ Running
    /\ Next1.kind = "Timeout" /\ Next1.s = "order"
    /\ \E d \in cfg.durs["prep"] : Commit(Resume(Popped, Next1.c, d))

\* The pay delay of a customer is over.
PayDelayOver ==
    /\ Running
    /\ Next1.kind = "Timeout" /\ Next1.s = "pay"
    /\ Commit(Resume(Popped, Next1.c, 0))

\* The prep delay of a customer is over: the customer is resumed if it is
\* already waiting for it.
PrepDelayOver ==
    /\ Running
    /\ Next1.kind = "Timeout" /\ Next1.s = "prep"
    /\ LET S1 == [Popped EXCEPT !.proc[Next1.c].prepDone = TRUE]
       IN  Commit(IF S1.proc[Next1.c].pc = "waitPrep"
                  THEN Resume(S1, Next1.c, 0) ELSE S1)

\* The pickup delay of a customer is over: the customer is resumed if it is
\* already waiting for it.
PickupDelayOver ==
    /\ Running
    /\ Next1.kind = "Timeout" /\ Next1.s = "pickup"
    /\ LET S1 == [Popped EXCEPT !.proc[Next1.c].pickupDone = TRUE]
       IN  Commit(IF S1.proc[Next1.c].pc = "waitPickupDelay"
                  THEN Resume(S1, Next1.c, 0) ELSE S1)

\* The Process event of an ended process is popped: nobody waits for it.
ProcessEnds ==
    /\ Running
    /\ Next1.kind = "Process" /\ Next1.s = "none"
    /\ Commit(Popped)

\* The Process event of a failed process is popped: nobody handles the
\* exception, env.step() raises it and env.run() ends the program with it.
ProcessFails ==
    /\ Running
    /\ Next1.kind = "Process" /\ Next1.s = "failed"
    /\ now' = Head(heap).t
    /\ heap' = Tail(heap)
    /\ main' = "fault"
    /\ UNCHANGED <<cfg, users, queue, callbacks, customerList, proc,
                   totalCustomers, numCustomersLeft, numCustomersStayed, gen,
                   report, hist>>

\* env.run() returns when no event is left; then restaurant.printStats().
PrintStats ==
    /\ main = "running"
    /\ heap = <<>>
    /\ report' = printStats
    /\ main' = IF \E i \in DOMAIN printStats : printStats[i].fault # "none"
               THEN "fault" ELSE "reported"
    /\ UNCHANGED <<cfg, now, heap, users, queue, callbacks, customerList,
                   proc, totalCustomers, numCustomersLeft,
                   numCustomersStayed, gen, hist>>

Next ==
    \/ GeneratorStep
    \/ CustomerStart
    \/ RequestGranted
    \/ ReleaseProcessed
    \/ OrderDelayOver
    \/ PayDelayOver
    \/ PrepDelayOver
    \/ PickupDelayOver
    \/ ProcessEnds
    \/ PrintStats

Spec == Init /\ [][Next]_vars

\* env.run() steps as long as an event is scheduled, and printStats follows:
\* the driver never stops while a step is possible. Checked on the rush
\* configurations and on the small ones of up to FairCustomers customers.
FairConfigs == RushConfigs \cup {c \in SmallConfigs : c.n <= FairCustomers}
FairSpec == InitWith(FairConfigs) /\ [][Next]_vars /\ WF_vars(Next)

\* ---------------------------------------------------- invalid configurations
\* What random.expovariate returns for a negative rate and what
\* random.weibullvariate returns for a negative mean (its scale is 1 / mean).
NegativeSamples == {-MaxDelay}

\* A station without capacity; a negative CUSTOMER_ARRIVAL_RATE; a negative
\* mean time of one stage.
InvalidConfigs ==
    {Config(n, [DefaultCap EXCEPT ![s] = k], Samples, [g \in Stages |-> Samples]) :
        n \in 1..NumCustomers, s \in Stations, k \in {0, -MaxCapacity}}
    \cup {Config(n, DefaultCap, NegativeSamples, [g \in Stages |-> Samples]) :
            n \in 1..NumCustomers}
    \cup {Config(n, DefaultCap, Samples,
                 [g \in Stages |-> IF g = bad THEN NegativeSamples ELSE Samples]) :
            n \in 1..NumCustomers, bad \in Stages}

ConfigCases == SmallConfigs \cup InvalidConfigs

\* simpy.Resource(env, capacity=...) raises ValueError for a capacity <= 0:
\* the program ends before the restaurant and its generator exist.
ConstructionFails ==
    /\ cfg \in {c \in ConfigCases : \E s \in Stations : c.cap[s] <= 0}
    /\ now = 0
    /\ heap = <<>>
    /\ users = [s \in Stations |-> <<>>]
    /\ queue = [s \in Stations |-> <<>>]
    /\ callbacks = [s \in Stations |-> [c \in 1..cfg.n |-> <<>>]]
    /\ customerList = <<>>
    /\ proc = <<>>
    /\ totalCustomers = 0
    /\ numCustomersLeft = 0
    /\ numCustomersStayed = 0
    /\ gen = [c |-> 0, pc |-> "new"]
    /\ main = "fault"
    /\ report = <<>>
    /\ hist = [reqOrder |-> [s \in Stations |-> <<>>],
               admOrder |-> [s \in Stations |-> <<>>],
               relOrder |-> [s \in Stations |-> <<>>],
               reqTime |-> <<>>, admTime |-> <<>>, relTime |-> <<>>,
               prepStart |-> <<>>, startQueue |-> <<>>, startTime |-> <<>>]

ConfigInit ==
    \/ InitWith({c \in ConfigCases : \A s \in Stations : c.cap[s] > 0})
    \/ ConstructionFails

ConfigNext == Next \/ ProcessFails

\* The program on valid and invalid configurations.
ConfigSpec == ConfigInit /\ [][ConfigNext]_vars

\* ===================================================================== claims
Customers == 1..Len(customerList)

\* The customers admitted to station s that have not released it.
Holding(s) ==
    {c \in Customers : hist.admTime[c][s] # Unset /\ hist.relTime[c][s] = Unset}

\* C1: in every reachable state, for each station and every capacity, the
\* number of customers admitted to the station that have not yet released it
\* is at most the station's capacity.
C1_AdmittedWithinCapacity ==
    \A s \in Stations : Cardinality(Holding(s)) <= cfg.cap[s]

\* C1 witness: a station of capacity two or more is full while a request waits.
C1_Witness ==
    \E s \in Stations :
        /\ cfg.cap[s] >= 2
        /\ Cardinality(Holding(s)) = cfg.cap[s]
        /\ queue[s] # <<>>

\* C2: for each station the order of admissions is the order of requests: the
\* customers admitted so far are exactly the first requesters, in request order.
C2_AdmissionIsFifo ==
    \A s \in Stations :
        hist.admOrder[s] = SubSeq(hist.reqOrder[s], 1, Len(hist.admOrder[s]))

\* C2 witness: at a station of capacity one, customer x has released its slot
\* at this instant and its Release event is still pending; customer b issued
\* its request at this same instant; an earlier requester a was admitted and b
\* waits.
C2_Witness ==
    \E s \in Stations : \E i \in DOMAIN heap : \E a \in Customers, b \in Customers :
        /\ cfg.cap[s] = 1
        /\ heap[i].ev.kind = "Release" /\ heap[i].ev.s = s
        /\ hist.relTime[heap[i].ev.c][s] = now
        /\ hist.reqTime[a][s] < now
        /\ hist.admTime[a][s] = now /\ hist.relTime[a][s] = Unset
        /\ hist.reqTime[b][s] = now /\ hist.admTime[b][s] = Unset

Balked(c) == proc[c].pc = "balked"
Started(c) == proc[c].pc # "new"
Completed(c) == proc[c].pc = "done"
Last(q) == q[Len(q)]

\* C3: a customer balks if and only if the order line, when its process
\* starts, is longer than 7 + the order capacity. A balked customer is counted
\* once in numCustomersLeft, never requests a station and keeps every
\* timestamp and duration unset; a customer that stays has enterTime set to
\* the time of its start and is counted once in numCustomersStayed.
C3_BalkIffLineTooLong ==
    /\ \A c \in Customers :
         Started(c) =>
           /\ Balked(c) <=>
                hist.startQueue[c] > OrderLineLimit + cfg.cap["order"]
           /\ Balked(c) =>
                /\ customerList[c] = NewCustomer
                /\ \A s \in Stations : hist.reqTime[c][s] = Unset
           /\ ~Balked(c) =>
                customerList[c].enterTime = hist.startTime[c]
    /\ numCustomersLeft = Cardinality({c \in Customers : Balked(c)})
    /\ numCustomersStayed =
         Cardinality({c \in Customers : Started(c) /\ ~Balked(c)})

\* C3 witness: the run is over; one customer balked and another, which found
\* the line exactly 7 + capacity long, stayed and completed.
C3_Witness ==
    /\ heap = <<>>
    /\ \E c \in Customers : Balked(c)
    /\ \E c \in Customers :
         /\ Completed(c)
         /\ hist.startQueue[c] = OrderLineLimit + cfg.cap["order"]

\* C4: with one station of each kind the pay line never holds more than 5
\* waiting requests and the pickup line never more than 2.
C4_DefaultLinesWithinLimits ==
    cfg.cap = DefaultCap =>
        /\ Len(queue["pay"]) <= PayLineLimit
        /\ Len(queue["pickup"]) <= PickupLineLimit

\* C4 witness: with the default capacities a customer has just released the
\* order station and joined the pay line, which now holds 5 requests, while
\* the pickup line holds 2.
C4_Witness ==
    /\ cfg.cap = DefaultCap
    /\ Len(queue["pay"]) = PayLineLimit
    /\ Len(queue["pickup"]) = PickupLineLimit
    /\ hist.reqTime[Last(queue["pay"])]["pay"] = now
    /\ hist.relTime[Last(queue["pay"])]["order"] = now

\* C5: for every configuration of capacities the pay line never holds more
\* than 5 waiting requests and the pickup line never more than 2.
C5_LinesWithinLimits ==
    /\ Len(queue["pay"]) <= PayLineLimit
    /\ Len(queue["pickup"]) <= PickupLineLimit

Max(a, b) == IF a >= b THEN a ELSE b
Occurrences(q, c) == Cardinality({i \in DOMAIN q : q[i] = c})

\* C6: a customer is admitted to the pay station only after it released the
\* order station, and to the pickup station only after it released the pay
\* station, and to each station at most once; for every completed customer
\* enterTime <= order admission <= pay admission <= pickup admission <=
\* exitTime, all of them set.
C6_StagesInOrder ==
    \A c \in Customers :
        /\ \A s \in Stations :
             /\ Occurrences(hist.admOrder[s], c) <= 1
             /\ hist.relTime[c][s] # Unset =>
                  /\ hist.admTime[c][s] # Unset
                  /\ hist.admTime[c][s] <= hist.relTime[c][s]
        /\ hist.admTime[c]["pay"] # Unset =>
             /\ hist.relTime[c]["order"] # Unset
             /\ hist.relTime[c]["order"] <= hist.admTime[c]["pay"]
        /\ hist.admTime[c]["pickup"] # Unset =>
             /\ hist.relTime[c]["pay"] # Unset
             /\ hist.relTime[c]["pay"] <= hist.admTime[c]["pickup"]
        /\ Completed(c) =>
             /\ customerList[c].enterTime # Unset
             /\ \A s \in Stations : hist.admTime[c][s] # Unset
             /\ customerList[c].enterTime <= hist.admTime[c]["order"]
             /\ hist.admTime[c]["order"] <= hist.admTime[c]["pay"]
             /\ hist.admTime[c]["pay"] <= hist.admTime[c]["pickup"]
             /\ hist.admTime[c]["pickup"] <= customerList[c].exitTime

\* C6 witness: a completed customer that waited in the order line and spent
\* time at every station.
C6_Witness ==
    \E c \in Customers :
        /\ Completed(c)
        /\ customerList[c].enterTime < hist.admTime[c]["order"]
        /\ hist.admTime[c]["order"] < hist.admTime[c]["pay"]
        /\ hist.admTime[c]["pay"] < hist.admTime[c]["pickup"]
        /\ hist.admTime[c]["pickup"] < customerList[c].exitTime

PrepReady(c) == hist.prepStart[c] + customerList[c].prepDuration
PickupOver(c) == hist.admTime[c]["pickup"] + customerList[c].pickupDuration

\* C7: for every completed customer the prep timer starts when the ordering
\* delay ends, before the order station is released and before payment, and
\* the customer releases the pickup station and sets exitTime at the later of
\* (prep start + prepDuration) and (pickup admission + pickupDuration).
C7_ExitAtLaterOfPrepAndPickup ==
    \A c \in Customers :
        Completed(c) =>
            /\ hist.prepStart[c] =
                 hist.admTime[c]["order"] + customerList[c].orderDuration
            /\ hist.prepStart[c] <= hist.relTime[c]["order"]
            /\ hist.prepStart[c] <= hist.admTime[c]["pay"]
            /\ customerList[c].exitTime = Max(PrepReady(c), PickupOver(c))
            /\ hist.relTime[c]["pickup"] = customerList[c].exitTime

\* C7 witness: one completed customer had to wait for its food after its
\* pickup delay; another started its prep timer, then waited for space in the
\* pay line, found its food ready on admission to the pickup station and left
\* when its pickup delay ended.
C7_Witness ==
    /\ \E c \in Customers :
         /\ Completed(c)
         /\ PrepReady(c) > PickupOver(c)
         /\ customerList[c].pickupDuration > 0
    /\ \E c \in Customers :
         /\ Completed(c)
         /\ hist.prepStart[c] < hist.relTime[c]["order"]
         /\ PrepReady(c) < hist.admTime[c]["pickup"]
         /\ customerList[c].pickupDuration > 0
         /\ customerList[c].exitTime = PickupOver(c)

\* Every spawned customer is balked or completed, with all four durations and
\* exitTime recorded, and the three stations are empty.
Settled ==
    /\ gen.pc = "done"
    /\ Len(customerList) = cfg.n
    /\ \A c \in Customers :
         \/ Balked(c)
         \/ /\ Completed(c)
            /\ customerList[c].exitTime # Unset
            /\ customerList[c].orderDuration # Unset
            /\ customerList[c].prepDuration # Unset
            /\ customerList[c].payDuration # Unset
            /\ customerList[c].pickupDuration # Unset
    /\ \A s \in Stations : users[s] = <<>> /\ queue[s] = <<>>

\* C8: with a finite number of customers and no horizon the run halts, and
\* when it halts every customer is balked or completed and the stations are
\* empty: no customer is left waiting for a station or for the head of a line.
C8_RunHaltsSettled ==
    /\ [](heap = <<>> => Settled)
    /\ <>(heap = <<>>)

\* C8 witness: the run has halted after customers were blocked by
\* backpressure at the order and at the pay station, and one customer balked.
C8_Witness ==
    /\ heap = <<>>
    /\ \E c \in Customers : Balked(c)
    /\ \E c \in Customers :
         Completed(c) /\ hist.prepStart[c] < hist.relTime[c]["order"]
    /\ \E c \in Customers :
         /\ Completed(c)
         /\ hist.admTime[c]["pay"] + customerList[c].payDuration
              < hist.relTime[c]["pay"]

RunOver == heap = <<>>

\* C9: when the run is over and no customer stayed, none of the five mean
\* computations ends in a division by zero, and printStats does not fault.
C9_MeansWithoutStayedCustomers ==
    (RunOver /\ numCustomersStayed = 0) =>
        /\ calculateMeanDriveThruTime.fault = "none"
        /\ calculateMeanOrderTime.fault = "none"
        /\ calculateMeanPrepTime.fault = "none"
        /\ calculateMeanPayTime.fault = "none"
        /\ calculateMeanPickupTime.fault = "none"
        /\ main # "fault"

\* The sum of val over a set of customers.
RECURSIVE Total(_, _)
Total(C, val) ==
    IF C = {} THEN 0
    ELSE LET c == CHOOSE x \in C : TRUE
         IN  val[c] + Total(C \ {c}, val)

WithField(f) == {c \in Customers : customerList[c][f] # Unset}
StageTotal(f) == Total(WithField(f), [c \in Customers |-> customerList[c][f]])
TimeSpentTotal ==
    Total(WithField("enterTime") \cap WithField("exitTime"),
          [c \in Customers |->
              customerList[c].exitTime - customerList[c].enterTime])
Fraction(total) == [fault |-> "none", num |-> total, den |-> numCustomersStayed]

\* C10: what printStats reports after the run is, for each stage, the sum of
\* the stage's duration over exactly the customers for which it is set, and
\* for the drive-thru time the sum of exit - enter over exactly the customers
\* with both set, each divided by numCustomersStayed; and the step that
\* computes the report changes no customer and no counter.
C10_ReportedAverages ==
    /\ [](main = "reported" =>
            report = <<Fraction(TimeSpentTotal),
                       Fraction(StageTotal("orderDuration")),
                       Fraction(StageTotal("prepDuration")),
                       Fraction(StageTotal("payDuration")),
                       Fraction(StageTotal("pickupDuration"))>>)
    /\ [][main' # main =>
            UNCHANGED <<customerList, totalCustomers, numCustomersLeft,
                        numCustomersStayed, users, queue, now>>]_vars

\* C10 witness: the report is out for a run in which a customer balked and
\* another completed after spending time at every stage.
C10_Witness ==
    /\ main = "reported"
    /\ \E c \in Customers : Balked(c)
    /\ \E c \in Customers :
         /\ Completed(c)
         /\ customerList[c].orderDuration > 0
         /\ customerList[c].prepDuration > 0
         /\ customerList[c].payDuration > 0
         /\ customerList[c].pickupDuration > 0

Fields ==
    {"enterTime", "exitTime", "orderDuration", "prepDuration", "payDuration",
     "pickupDuration"}
Durations == {"orderDuration", "prepDuration", "payDuration", "pickupDuration"}

\* The event whose processing writes field f: the start of the process, the
\* admission to a station, or the end of a delay.
WrittenAt(f, ev) ==
    CASE f = "enterTime" -> ev.kind = "Initialize"
      [] f = "orderDuration" -> ev.kind = "Request" /\ ev.s = "order"
      [] f = "prepDuration" -> ev.kind = "Timeout" /\ ev.s = "order"
      [] f = "payDuration" -> ev.kind = "Request" /\ ev.s = "pay"
      [] f = "pickupDuration" -> ev.kind = "Request" /\ ev.s = "pickup"
      [] f = "exitTime" -> ev.kind = "Timeout" /\ ev.s \in {"prep", "pickup"}

\* C11: a customer's enterTime, exitTime and durations change only in a step
\* that processes an event of that customer's own process (never in a step of
\* another customer or of the generator, which creates the customer with every
\* field unset); a field that is set never changes again; and a completed
\* customer has all four durations set.
C11_FieldsWrittenOnceByOwner ==
    /\ [][
          /\ \A c \in Customers : \A f \in Fields :
               /\ customerList[c][f] # Unset =>
                    customerList'[c][f] = customerList[c][f]
               /\ customerList'[c][f] # customerList[c][f] =>
                    /\ Running
                    /\ Next1.c = c
                    /\ WrittenAt(f, Next1)
          /\ \A x \in DOMAIN customerList' :
               x \notin Customers => customerList'[x] = NewCustomer
         ]_vars
    /\ [](\A c \in Customers :
            Completed(c) => \A f \in Durations : customerList[c][f] # Unset)

\* C11 witness: two customers whose stays overlapped have both completed with
\* every field set, and their order and pay durations differ.
C11_Witness ==
    \E a \in Customers, b \in Customers :
        /\ Completed(a) /\ Completed(b)
        /\ \A f \in Fields :
             customerList[a][f] # Unset /\ customerList[b][f] # Unset
        /\ customerList[a].orderDuration # customerList[b].orderDuration
        /\ customerList[a].orderDuration # customerList[a].payDuration
        /\ customerList[b].enterTime < customerList[a].exitTime
        /\ customerList[a].enterTime <= customerList[b].enterTime

\* The configuration has a non-positive capacity, a negative arrival rate or
\* a negative mean stage duration.
BadConfig ==
    \/ \E s \in Stations : cfg.cap[s] <= 0
    \/ \E x \in cfg.gaps : x < 0
    \/ \E g \in Stages : \E x \in cfg.durs[g] : x < 0

\* C13: a run with an invalid configuration never reaches a state in which a
\* customer has been created or a timed delay has been scheduled.
C13_InvalidConfigNeverStarts ==
    BadConfig =>
        /\ customerList = <<>>
        /\ \A i \in DOMAIN heap : heap[i].ev.kind # "Timeout"

\* C14: the order line never holds more than 7 waiting requests.
C14_OrderLineAtMostSeven == Len(queue["order"]) <= OrderLineLimit

\* C15: with one station of each kind the pay line never holds more than 4
\* waiting requests and the pickup line never more than 1.
C15_DefaultLinesBelowLimits ==
    cfg.cap = DefaultCap =>
        /\ Len(queue["pay"]) <= PayLineLimit - 1
        /\ Len(queue["pickup"]) <= PickupLineLimit - 1

\* A slot of station s is free while a request waits in its line.
IdleWithWaiting(s) == Len(users[s]) < cfg.cap[s] /\ queue[s] # <<>>

\* C16: whenever simulated time advances, and when the run halts, no station
\* has both a free slot and a non-empty wait line: the head of the line was
\* admitted at the instant the slot was released.
C16_WorkConserving ==
    /\ [][now' > now => \A s \in Stations : ~IdleWithWaiting(s)]_vars
    /\ [](heap = <<>> => \A s \in Stations : ~IdleWithWaiting(s))

\* C16 witness: at a later instant than 0 a customer released a station and
\* the head of its line, which had waited since an earlier instant, was
\* admitted at that same instant and holds the slot.
C16_Witness ==
    \E s \in Stations : \E a \in Customers, b \in Customers :
        /\ now > 0
        /\ hist.relTime[a][s] = now
        /\ hist.reqTime[b][s] # Unset /\ hist.reqTime[b][s] < now
        /\ hist.admTime[b][s] = now
        /\ Occurrences(users[s], b) = 1

\* C17: the order line never holds more than 8 + the order capacity requests.
C17_OrderLineBound ==
    Len(queue["order"]) <= OrderLineLimit + 1 + cfg.cap["order"]

\* C17 witness: the order line holds 8 + capacity requests, the last of them
\* issued at the same instant as the one before it, by a customer that found
\* the line 7 + capacity long.
C17_Witness ==
    /\ Len(queue["order"]) = OrderLineLimit + 1 + cfg.cap["order"]
    /\ hist.startQueue[Last(queue["order"])] = OrderLineLimit + cfg.cap["order"]
    /\ hist.reqTime[Last(queue["order"])]["order"] = now
    /\ hist.reqTime[queue["order"][Len(queue["order"]) - 1]]["order"] = now

SlotsHeld(c) == {s \in Stations : Occurrences(users[s], c) > 0}
LinesJoined(c) == {s \in Stations : Occurrences(queue[s], c) > 0}

\* C18: a customer never holds slots of two stations, never waits in two
\* lines, and never holds a slot while it waits in a line.
C18_OneStationAtATime ==
    \A c \in Customers :
        /\ Cardinality(SlotsHeld(c)) + Cardinality(LinesJoined(c)) <= 1
        /\ \A s \in Stations :
             Occurrences(users[s], c) + Occurrences(queue[s], c) <= 1

\* C18 witness: one customer holds the order station while it waits for space
\* in the pay line; another has released the order station and waits in the
\* pay line; a third has released the pay station and waits in the pickup line.
C18_Witness ==
    /\ \E c \in Customers :
         proc[c].pc = "bpPay" /\ SlotsHeld(c) = {"order"}
    /\ \E c \in Customers :
         /\ hist.relTime[c]["order"] # Unset
         /\ SlotsHeld(c) = {} /\ LinesJoined(c) = {"pay"}
    /\ \E c \in Customers :
         /\ hist.relTime[c]["pay"] # Unset
         /\ SlotsHeld(c) = {} /\ LinesJoined(c) = {"pickup"}

\* C19: totalCustomers is the length of customerList and at most N; the two
\* tallies together count exactly the customers whose process has started;
\* when the run halts, totalCustomers = N and the tallies add up to N.
C19_CountersAddUp ==
    /\ totalCustomers = Len(customerList)
    /\ totalCustomers <= cfg.n
    /\ numCustomersLeft + numCustomersStayed =
         Cardinality({c \in Customers : Started(c)})
    /\ numCustomersLeft + numCustomersStayed <= totalCustomers
    /\ heap = <<>> =>
         /\ totalCustomers = cfg.n
         /\ numCustomersLeft + numCustomersStayed = cfg.n

\* C19 witness: the run of N customers has halted; some stayed, one left.
C19_Witness ==
    /\ heap = <<>>
    /\ totalCustomers = cfg.n
    /\ numCustomersLeft > 0
    /\ numCustomersStayed > 0

\* C20: the first customer finds the order line empty and stays; when a run
\* of at least one customer halts, numCustomersStayed >= 1, none of the five
\* means is a division by zero and printStats does not fault.
C20_FirstCustomerStays ==
    /\ \A c \in Customers :
         (c = 1 /\ Started(c)) => hist.startQueue[c] = 0 /\ ~Balked(c)
    /\ (cfg.n >= 1 /\ heap = <<>>) =>
         /\ numCustomersStayed >= 1
         /\ calculateMeanDriveThruTime.fault = "none"
         /\ calculateMeanOrderTime.fault = "none"
         /\ calculateMeanPrepTime.fault = "none"
         /\ calculateMeanPayTime.fault = "none"
         /\ calculateMeanPickupTime.fault = "none"
         /\ main # "fault"

\* C20 witness: the report with its five means is out for a run of one
\* customer.
C20_Witness ==
    /\ main = "reported"
    /\ Len(report) = 5
    /\ cfg.n = 1
    /\ numCustomersStayed = 1

====
